---- MODULE Spec2Model ----
(***************************************************************************)
(* Overlay editor of src/src/App.tsx: the gesture controller (drag,        *)
(* resize, rotate), the overlay transform and the canvas export.           *)
(*                                                                         *)
(* The file holds two variants of the App component (lines 23-466 and      *)
(* lines 490-944).  The variable `variant` selects which one runs.         *)
(*                                                                         *)
(* React is the scheduler: a handler's state updates are committed, the    *)
(* component re-rendered and its effects run before the next event is      *)
(* dispatched, so every action below ends with the commit of its effects.  *)
(***************************************************************************)
EXTENDS Integers, Sequences, FiniteSets, TLC

(***************************************************************************)
(* JavaScript numbers.  A number is a record [k, n, d]:                    *)
(*   k = "fin"   the rational n/d (d > 0, lowest terms)                    *)
(*   k = "sqrt"  the irrational square root of the rational n/d            *)
(*   k = "atan2" the angle atan2(n, d) in degrees, n and d coprime, when   *)
(*               it is not a multiple of 45 degrees                        *)
(*   k = "nan", "pinf", "ninf"   NaN, +Infinity, -Infinity                 *)
(* Arithmetic is exact (no rounding error is modelled).                    *)
(***************************************************************************)
Abs(i) == IF i < 0 THEN -i ELSE i

Sign(i) == IF i < 0 THEN -1 ELSE IF i = 0 THEN 0 ELSE 1

RECURSIVE GCD(_, _)
GCD(a, b) == IF b = 0 THEN a ELSE GCD(b, a % b)

Rat(n, d) ==
    LET g == GCD(Abs(n), Abs(d))
        s == Sign(d)
    IN  [k |-> "fin", n |-> (s * n) \div g, d |-> (s * d) \div g]

Num(i) == [k |-> "fin", n |-> i, d |-> 1]

NaN == [k |-> "nan", n |-> 0, d |-> 1]

PInf == [k |-> "pinf", n |-> 0, d |-> 1]

NInf == [k |-> "ninf", n |-> 0, d |-> 1]

IsNaN(a) == a.k = "nan"

IsFinite(a) == a.k \in {"fin", "sqrt", "atan2"}

RECURSIVE ISqrtIn(_, _, _)
ISqrtIn(n, lo, hi) ==
    IF lo >= hi THEN lo
    ELSE LET mid == (lo + hi + 1) \div 2
         IN  IF mid * mid <= n THEN ISqrtIn(n, mid, hi) ELSE ISqrtIn(n, lo, mid - 1)

\* floor of the square root of n; the search stays below 46341 (square < 2^31)
ISqrt(n) == ISqrtIn(n, 0, IF n < 46340 THEN n ELSE 46340)

IsSquare(n) == ISqrt(n) * ISqrt(n) = n

\* sign of a non-NaN number
FSign(a) ==
    CASE a.k = "fin" -> Sign(a.n)
      [] a.k = "sqrt" -> 1
      [] a.k = "pinf" -> 1
      [] a.k = "ninf" -> -1
      [] OTHER -> 0

\* a < b for numbers that are neither NaN nor angles
FLess(a, b) ==
    CASE a.k = "ninf" -> b.k # "ninf"
      [] a.k = "pinf" -> FALSE
      [] b.k = "pinf" -> TRUE
      [] b.k = "ninf" -> FALSE
      [] a.k = "fin" /\ b.k = "fin" -> a.n * b.d < b.n * a.d
      [] a.k = "sqrt" /\ b.k = "fin" -> b.n > 0 /\ a.n * b.d * b.d < b.n * b.n * a.d
      [] a.k = "fin" /\ b.k = "sqrt" -> a.n <= 0 \/ a.n * a.n * b.d < b.n * a.d * a.d
      [] OTHER -> a.n * b.d < b.n * a.d

\* Math.min and Math.max: NaN if either argument is NaN
FMin(a, b) == IF IsNaN(a) \/ IsNaN(b) THEN NaN ELSE IF FLess(b, a) THEN b ELSE a

FMax(a, b) == IF IsNaN(a) \/ IsNaN(b) THEN NaN ELSE IF FLess(a, b) THEN b ELSE a

\* a - b for finite rationals; NaN propagates
FSub(a, b) ==
    IF IsNaN(a) \/ IsNaN(b) THEN NaN
    ELSE Rat(a.n * b.d - b.n * a.d, a.d * b.d)

FAdd(a, b) ==
    IF IsNaN(a) \/ IsNaN(b) THEN NaN
    ELSE Rat(a.n * b.d + b.n * a.d, a.d * b.d)

\* Math.sqrt of a rational: exact when the rational is a perfect square
FSqrt(a) ==
    CASE IsNaN(a) -> NaN
      [] a.k = "pinf" -> PInf
      [] a.k = "fin" /\ a.n < 0 -> NaN
      [] a.k = "fin" /\ IsSquare(a.n) /\ IsSquare(a.d) -> Rat(ISqrt(a.n), ISqrt(a.d))
      [] OTHER -> [k |-> "sqrt", n |-> a.n, d |-> a.d]

\* a * b: rationals, a square root times a rational, an infinity times a
\* number (Infinity * 0 is NaN)
FMul(a, b) ==
    CASE IsNaN(a) \/ IsNaN(b) -> NaN
      [] a.k \in {"pinf", "ninf"} \/ b.k \in {"pinf", "ninf"} ->
            LET s == FSign(a) * FSign(b)
            IN  IF s = 0 THEN NaN ELSE IF s > 0 THEN PInf ELSE NInf
      [] a.k = "fin" /\ b.k = "fin" -> Rat(a.n * b.n, a.d * b.d)
      [] a.k = "fin" /\ b.k = "sqrt" ->
            \* a * sqrt(q) = sqrt(a^2 * q) for a > 0
            IF a.n = 0 THEN Num(0) ELSE FSqrt(Rat(a.n * a.n * b.n, a.d * a.d * b.d))
      [] OTHER -> NaN

\* a / b with IEEE results for a zero divisor: 0/0 is NaN, x/0 is +-Infinity.
\* b is a rational (the divisors of the program are pixel sizes).
FDiv(a, b) ==
    CASE IsNaN(a) \/ IsNaN(b) -> NaN
      [] b.n = 0 ->
            IF FSign(a) = 0 THEN NaN ELSE IF FSign(a) > 0 THEN PInf ELSE NInf
      [] a.k = "fin" -> Rat(a.n * b.d, a.d * b.n)
      [] a.k = "sqrt" ->
            \* sqrt(q) / b = sqrt(q / b^2) for b > 0
            FSqrt(Rat(a.n * b.d * b.d, a.d * b.n * b.n))
      [] OTHER -> a

\* Math.atan2(dy, dx) converted to degrees
Atan2Deg(dy, dx) ==
    IF IsNaN(dy) \/ IsNaN(dx) THEN NaN
    ELSE LET y == dy.n * dx.d
             x == dx.n * dy.d
             g == GCD(Abs(y), Abs(x))
         IN  CASE y = 0 /\ x >= 0 -> Num(0)
               [] y = 0 /\ x < 0 -> Num(180)
               [] x = 0 /\ y > 0 -> Num(90)
               [] x = 0 /\ y < 0 -> Num(-90)
               [] y = x /\ x > 0 -> Num(45)
               [] y = x /\ x < 0 -> Num(-135)
               [] y = -x /\ x > 0 -> Num(-45)
               [] y = -x /\ x < 0 -> Num(135)
               [] OTHER -> [k |-> "atan2", n |-> y \div g, d |-> x \div g]


(***************************************************************************)
(* Inputs of the environment.                                              *)
(***************************************************************************)
\* the two App components of the file
Variants == {1, 2}

\* number of distinct photos the user can upload
NumImages == 2

Images == 1 .. NumImages

\* number of exports that can be started in one run
MaxExports == 2

\* number of events handled in one run of the editor without exports
MaxSteps == 6

\* number of events handled in one run of the editor with exports
MaxExportSteps == 7

\* number of events handled in one run of successive gestures
MaxGestureSteps == 8

\* number of events handled in one run in which every decode completes
MaxDecodeSteps == 9

\* number of events handled in one run that starts with the first render
\* of an uploaded photo
MaxRenderSteps == 5

\* native size of an uploaded photo once decoded
ImgW(i) == IF i = 1 THEN 200 ELSE 100

ImgH(i) == 100

Rect(l, t, w, h) == [left |-> l, top |-> t, width |-> w, height |-> h]

\* rectangles getBoundingClientRect can return for the container: before
\* layout (no area), laid out, laid out and scrolled
Rects == {Rect(0, 0, 0, 0), Rect(0, 0, 200, 100), Rect(10, 0, 200, 100)}

Pt(px, py) == [x |-> px, y |-> py]

\* client coordinates of pointer-move events
Points == {Pt(0, 0), Pt(100, 50), Pt(104, 60), Pt(120, 60), Pt(100, 150), Pt(250, 50)}

\* client coordinates of pointer-down events
DownPoints == {Pt(100, 50)}

Actions == {"drag", "resize", "rotate"}

\* positions of the opacity slider: min 0.1, max 1, step 0.05
SliderValues == {Rat(2, 20), Rat(10, 20), Rat(20, 20)}

Null == <<>>

Some(v) == <<v>>

(***************************************************************************)
(* State.                                                                  *)
(***************************************************************************)
VARIABLES
    variant,        \* which App component runs
    uploadedImage,  \* useState: 0 is null, else the photo
    overlay,        \* useState<OverlayState>
    isDragging,     \* useState
    isResizing,     \* useState
    isRotating,     \* useState
    overlayRef,     \* variant 1: overlayRef.current (latest overlay)
    dragStartRef,   \* variant 2: dragStartRef.current, Null or Some(point)
    imageRect,      \* variant 2: useState<DOMRect | null>, Null or Some(rect)
    containerRect,  \* what imageContainerRef.current.getBoundingClientRect() returns
    listening,      \* the document move/release listeners are registered
    timers,         \* pending setTimeout(..., 50) callbacks of the upload handler
    exports,        \* the calls of downloadImage, in the order started
    canvas,         \* the hidden <canvas> of canvasRef
    lastEvent,      \* the event handled last
    steps,          \* number of events still to be handled in this run
    replay          \* history: Null, or the transform at the start of the
                    \* latest gesture with the update rule applied to each of
                    \* its moves in turn, and the number of those moves

vars == <<variant, uploadedImage, overlay, isDragging, isResizing, isRotating,
          overlayRef, dragStartRef, imageRect, containerRect, listening,
          timers, exports, canvas, lastEvent, steps, replay>>

\* the overlay a new photo and the reset button install
DefaultOverlay(v) ==
    [x |-> Num(50), y |-> IF v = 1 THEN Num(60) ELSE Num(50), scale |-> Num(1),
     rotation |-> Num(0), opacity |-> Rat(95, 100)]

\* the drawing state of a fresh 2D context: nothing saved, globalAlpha 1,
\* the identity transform (translation tx, ty and rotation rot in degrees)
DefaultCtx == [stack |-> <<>>, alpha |-> Num(1), tx |-> Num(0), ty |-> Num(0), rot |-> Num(0)]

\* a canvas: its bitmap as the drawImage calls that painted it (ops), the
\* drawing state of its context (ctx) and the context calls made since it
\* was last sized (calls)
BlankCanvas == [width |-> 300, height |-> 150, ops |-> <<>>, ctx |-> DefaultCtx,
                calls |-> <<>>]

Event(t) == [type |-> t, action |-> "none", p |-> Pt(0, 0)]

Mounted ==
    /\ variant \in Variants
    /\ uploadedImage = 0
    /\ overlay = DefaultOverlay(variant)
    /\ isDragging = FALSE
    /\ isResizing = FALSE
    /\ isRotating = FALSE
    /\ overlayRef = overlay
    /\ dragStartRef = Null
    /\ imageRect = Null
    /\ containerRect = Null
    /\ listening = FALSE
    /\ timers = 0
    /\ exports = <<>>
    /\ canvas = BlankCanvas
    /\ lastEvent = Event("init")
    /\ replay = Null

Init == Mounted /\ steps = MaxSteps

InitExport == Mounted /\ steps = MaxExportSteps

InitGestures == Mounted /\ steps = MaxGestureSteps

InitRender == Mounted /\ steps = MaxRenderSteps

InitDecode == Mounted /\ steps = MaxDecodeSteps

(***************************************************************************)
(* Effects run at commit.                                                  *)
(***************************************************************************)
\* mutant: the listeners are registered only while dragging
ListenerEffectDragOnly(dragging, resizing, rotating) == dragging

\* useEffect of the listeners: registered while a flag is set, removed by
\* the cleanup when the flags change
ListenerEffect(dragging, resizing, rotating) == dragging \/ resizing \/ rotating

\* an overlayRef that is written once and never synchronised
OverlayRefEffectOnce(ov) == overlayRef

\* variant 1: useEffect(() => { overlayRef.current = overlay }, [overlay])
OverlayRefEffect(ov) == ov

Idle == ~isDragging /\ ~isResizing /\ ~isRotating


\* React commits the render that follows a handler: the effects see the new
\* state
Commit ==
    /\ steps > 0
    /\ steps' = steps - 1
    /\ overlayRef' = OverlayRefEffect(overlay')
    /\ listening' = ListenerEffect(isDragging', isResizing', isRotating')

(***************************************************************************)
(* Upload and layout.                                                      *)
(***************************************************************************)
\* variant 2: updateImageRect
updateImageRect(container) == container

\* reader.onload of handleFileUpload / handleImageUpload: a photo was read.
\* r is the rectangle of the container when it is first mounted.
FileLoaded(img, r) ==
    /\ uploadedImage' = img
    /\ overlay' = DefaultOverlay(variant)
    /\ containerRect' = IF uploadedImage = 0 THEN Some(r) ELSE containerRect
    /\ imageRect' = IF variant = 2 /\ uploadedImage # img
                    THEN updateImageRect(containerRect')
                    ELSE imageRect
    /\ timers' = timers + 1
    /\ lastEvent' = Event("upload")
    /\ replay' = Null
    /\ UNCHANGED <<variant, isDragging, isResizing, isRotating, dragStartRef, exports, canvas>>
    /\ Commit

\* reader.onload up to the commit of its render: the container and the
\* overlay are on screen, the effect that measures the container (variant 2)
\* has not run yet
FileRendered(img, r) ==
    /\ uploadedImage' = img
    /\ overlay' = DefaultOverlay(variant)
    /\ containerRect' = IF uploadedImage = 0 THEN Some(r) ELSE containerRect
    /\ timers' = timers + 1
    /\ lastEvent' = Event("upload")
    /\ replay' = Null
    /\ UNCHANGED <<variant, imageRect, isDragging, isResizing, isRotating, dragStartRef,
                   exports, canvas>>
    /\ Commit

\* variant 2: the effect on uploadedImage runs updateImageRect and its
\* setImageRect is committed
RectEffect ==
    /\ uploadedImage # 0
    /\ imageRect' = IF variant = 2 THEN updateImageRect(containerRect) ELSE imageRect
    /\ lastEvent' = Event("effect")
    /\ UNCHANGED <<replay, variant, uploadedImage, overlay, isDragging, isResizing, isRotating,
                   dragStartRef, containerRect, timers, exports, canvas>>
    /\ Commit

\* the setTimeout callback of the upload handler: variant 1 measures the
\* container and drops the result, variant 2 runs updateImageRect
TimerFired ==
    /\ timers > 0
    /\ timers' = timers - 1
    /\ imageRect' = IF variant = 2 THEN updateImageRect(containerRect) ELSE imageRect
    /\ lastEvent' = Event("timer")
    /\ UNCHANGED <<replay, variant, uploadedImage, overlay, isDragging, isResizing, isRotating,
                   dragStartRef, containerRect, exports, canvas>>
    /\ Commit

LayoutKinds == {"load", "resize", "scroll"}

\* the container gets rectangle r: the <img> finished loading (onLoad), the
\* window was resized (variant 2 listens to "resize"), or the page scrolled
\* (no handler in either variant)
Layout(kind, r) ==
    /\ uploadedImage # 0
    /\ containerRect' = Some(r)
    /\ imageRect' = IF variant = 2 /\ kind \in {"load", "resize"}
                    THEN updateImageRect(containerRect')
                    ELSE imageRect
    /\ lastEvent' = Event(kind)
    /\ UNCHANGED <<replay, variant, uploadedImage, overlay, isDragging, isResizing, isRotating,
                   dragStartRef, timers, exports, canvas>>
    /\ Commit

(***************************************************************************)
(* Gestures.                                                               *)
(***************************************************************************)
\* mutant: the drag flag is set whatever the action
startActionAlwaysDrag(cur, container, p, action) ==
    IF container = Null THEN cur
    ELSE [dragging |-> TRUE,
          resizing |-> cur.resizing \/ action = "resize",
          rotating |-> cur.rotating \/ action = "rotate",
          dragStart |-> cur.dragStart]

\* startAction of variant 1: [dragging, resizing, rotating, dragStart] after
\* the call; cur is the same tuple before it
startAction1(cur, container, p, action) ==
    IF container = Null THEN cur
    ELSE [dragging |-> cur.dragging \/ action = "drag",
          resizing |-> cur.resizing \/ action = "resize",
          rotating |-> cur.rotating \/ action = "rotate",
          dragStart |-> cur.dragStart]

\* a startAction that sets the mode flag without looking at the rectangle
startAction2NoGuard(cur, rect, p, action) ==
    [dragging |-> cur.dragging \/ action = "drag",
     resizing |-> cur.resizing \/ action = "resize",
     rotating |-> cur.rotating \/ action = "rotate",
     dragStart |-> IF rect = Null THEN cur.dragStart
                   ELSE Some(Pt(p.x - rect[1].left, p.y - rect[1].top))]

\* startAction of variant 2
startAction2(cur, rect, p, action) ==
    IF rect = Null THEN cur
    ELSE [dragging |-> cur.dragging \/ action = "drag",
          resizing |-> cur.resizing \/ action = "resize",
          rotating |-> cur.rotating \/ action = "rotate",
          dragStart |-> Some(Pt(p.x - rect[1].left, p.y - rect[1].top))]

Gesture == [dragging |-> isDragging, resizing |-> isResizing, rotating |-> isRotating,
            dragStart |-> dragStartRef]

SetGesture(g) ==
    /\ isDragging' = g.dragging
    /\ isResizing' = g.resizing
    /\ isRotating' = g.rotating
    /\ dragStartRef' = g.dragStart

\* history: a pointer-down that starts a gesture starts the replay from the
\* current transform; one that arrives during a gesture changes the mode the
\* moves are handled in and ends the replay
StartReplay ==
    IF ~Idle THEN Null
    ELSE IF isDragging' \/ isResizing' \/ isRotating'
         THEN Some([ov |-> overlay, n |-> 0])
         ELSE replay

\* handleMouseDown / handleTouchStart (both call startAction) on the overlay
\* body ("drag") or on a handle; the overlay element exists only while a
\* photo is shown
PointerDown(action, p) ==
    /\ uploadedImage # 0
    /\ SetGesture(IF variant = 1
                  THEN startAction1(Gesture, containerRect, p, action)
                  ELSE startAction2(Gesture, imageRect, p, action))
    /\ lastEvent' = [type |-> "down", action |-> action, p |-> p]
    /\ replay' = StartReplay
    /\ UNCHANGED <<variant, uploadedImage, overlay, imageRect, containerRect, timers,
                   exports, canvas>>
    /\ Commit

clamp(v, a, b) == FMax(a, FMin(b, v))

\* mutant: the percentages are stored without clamping
DragMoveUnclamped(ov, rect, localX, localY) ==
    [ov EXCEPT !.x = FMul(FDiv(localX, Num(rect.width)), Num(100)),
               !.y = FMul(FDiv(localY, Num(rect.height)), Num(100))]

\* a drag branch that divides both coordinates by the width
DragMoveByWidth(ov, rect, localX, localY) ==
    [ov EXCEPT !.x = clamp(FMul(FDiv(localX, Num(rect.width)), Num(100)), Num(0), Num(100)),
               !.y = clamp(FMul(FDiv(localY, Num(rect.width)), Num(100)), Num(0), Num(100))]

\* the drag branch of handleMove
DragMove(ov, rect, localX, localY) ==
    [ov EXCEPT !.x = clamp(FMul(FDiv(localX, Num(rect.width)), Num(100)), Num(0), Num(100)),
               !.y = clamp(FMul(FDiv(localY, Num(rect.height)), Num(100)), Num(0), Num(100))]

MinOf(a, b) == IF a < b THEN a ELSE b

\* a resize branch that also straightens the overlay
ResizeMoveStraightens(ov, c, rect, localX, localY, minScale) ==
    LET centerX == FMul(FDiv(c.x, Num(100)), Num(rect.width))
        centerY == FMul(FDiv(c.y, Num(100)), Num(rect.height))
        dx == FSub(localX, centerX)
        dy == FSub(localY, centerY)
        distance == FSqrt(FAdd(FMul(dx, dx), FMul(dy, dy)))
        baseDistance == FMul(Num(MinOf(rect.width, rect.height)), Rat(2, 10))
        newScale == clamp(FDiv(distance, baseDistance), minScale, Num(4))
    IN  [ov EXCEPT !.scale = newScale, !.rotation = Num(0)]

\* the resize branch of handleMove; c is the overlay the centre is read from
ResizeMove(ov, c, rect, localX, localY, minScale) ==
    LET centerX == FMul(FDiv(c.x, Num(100)), Num(rect.width))
        centerY == FMul(FDiv(c.y, Num(100)), Num(rect.height))
        dx == FSub(localX, centerX)
        dy == FSub(localY, centerY)
        distance == FSqrt(FAdd(FMul(dx, dx), FMul(dy, dy)))
        baseDistance == FMul(Num(MinOf(rect.width, rect.height)), Rat(2, 10))
        newScale == clamp(FDiv(distance, baseDistance), minScale, Num(4))
    IN  [ov EXCEPT !.scale = newScale]

\* a rotate branch that turns the overlay by the pointer's angle instead of
\* setting it: a relative rotation
RotateMoveRelative(ov, c, rect, localX, localY) ==
    LET centerX == FMul(FDiv(c.x, Num(100)), Num(rect.width))
        centerY == FMul(FDiv(c.y, Num(100)), Num(rect.height))
        angle == Atan2Deg(FSub(localY, centerY), FSub(localX, centerX))
    IN  [ov EXCEPT !.rotation = IF ov.rotation.k = "fin" /\ angle.k = "fin"
                                THEN FAdd(ov.rotation, angle)
                                ELSE angle]

\* the rotate branch of handleMove
RotateMove(ov, c, rect, localX, localY) ==
    LET centerX == FMul(FDiv(c.x, Num(100)), Num(rect.width))
        centerY == FMul(FDiv(c.y, Num(100)), Num(rect.height))
        angle == Atan2Deg(FSub(localY, centerY), FSub(localX, centerX))
    IN  [ov EXCEPT !.rotation = angle]

\* handleMove of variant 1: the rectangle is measured at every move
handleMove1(ov, ref, g, container, p) ==
    IF container = Null THEN ov
    ELSE LET rect == container[1]
             localX == Num(p.x - rect.left)
             localY == Num(p.y - rect.top)
         IN  IF g.dragging THEN DragMove(ov, rect, localX, localY)
             ELSE IF g.resizing THEN ResizeMove(ov, ref, rect, localX, localY, Rat(25, 100))
             ELSE IF g.rotating THEN RotateMove(ov, ref, rect, localX, localY)
             ELSE ov

\* handleMove of variant 2: the rectangle is the imageRect state
handleMove2(ov, ref, g, rectState, p) ==
    IF rectState = Null THEN ov
    ELSE LET rect == rectState[1]
             localX == Num(p.x - rect.left)
             localY == Num(p.y - rect.top)
         IN  IF g.dragging /\ g.dragStart # Null THEN DragMove(ov, rect, localX, localY)
             ELSE IF g.resizing /\ g.dragStart # Null
                  THEN ResizeMove(ov, ref, rect, localX, localY, Rat(2, 10))
             ELSE IF g.rotating /\ g.dragStart # Null
                  THEN RotateMove(ov, ref, rect, localX, localY)
             ELSE ov

\* the update handleMove makes to transform ov for a move to p in the
\* current mode, the overlay centre read from ov itself
UpdateRule(ov, p) ==
    IF variant = 1
    THEN handleMove1(ov, ov, Gesture, containerRect, p)
    ELSE handleMove2(ov, ov, Gesture, imageRect, p)

\* a move handler that closed over the transform of the first render and
\* writes the whole object: setOverlay({...overlay, ...})
PointerMoveStaleClosure(p) ==
    /\ overlay' = IF ~listening THEN overlay
                  ELSE IF variant = 1
                  THEN handleMove1(DefaultOverlay(variant), overlayRef, Gesture,
                                   containerRect, p)
                  ELSE handleMove2(DefaultOverlay(variant), overlayRef, Gesture,
                                   imageRect, p)
    /\ lastEvent' = [type |-> "move", action |-> "none", p |-> p]
    /\ replay' = IF replay = Null \/ ~listening THEN replay
                 ELSE Some([ov |-> UpdateRule(replay[1].ov, p), n |-> replay[1].n + 1])
    /\ UNCHANGED <<variant, uploadedImage, isDragging, isResizing, isRotating, dragStartRef,
                   imageRect, containerRect, timers, exports, canvas>>
    /\ Commit

\* "mousemove" / "touchmove" reaches the document: onMouseMove / onTouchMove
\* (both call handleMove) run if the effect has registered them
PointerMove(p) ==
    /\ overlay' = IF ~listening THEN overlay
                  ELSE IF variant = 1
                  THEN handleMove1(overlay, overlayRef, Gesture, containerRect, p)
                  ELSE handleMove2(overlay, overlayRef, Gesture, imageRect, p)
    /\ lastEvent' = [type |-> "move", action |-> "none", p |-> p]
    /\ replay' = IF replay = Null \/ ~listening THEN replay
                 ELSE Some([ov |-> UpdateRule(replay[1].ov, p), n |-> replay[1].n + 1])
    /\ UNCHANGED <<variant, uploadedImage, isDragging, isResizing, isRotating, dragStartRef,
                   imageRect, containerRect, timers, exports, canvas>>
    /\ Commit

\* onEnd (variant 1) / onUp (variant 2)
onEnd(g, v) ==
    [dragging |-> FALSE, resizing |-> FALSE, rotating |-> FALSE,
     dragStart |-> IF v = 2 THEN Null ELSE g.dragStart]

\* a release that also puts the transform back to its defaults
PointerUpRollback ==
    /\ SetGesture(IF listening THEN onEnd(Gesture, variant) ELSE Gesture)
    /\ overlay' = IF listening THEN DefaultOverlay(variant) ELSE overlay
    /\ lastEvent' = Event("up")
    /\ UNCHANGED <<replay, variant, uploadedImage, imageRect, containerRect, timers, exports,
                   canvas>>
    /\ Commit

\* "mouseup" / "touchend" reaches the document: onEnd / onUp runs if the
\* effect has registered it
PointerUp ==
    /\ SetGesture(IF listening THEN onEnd(Gesture, variant) ELSE Gesture)
    /\ lastEvent' = Event("up")
    /\ UNCHANGED <<replay, variant, uploadedImage, overlay, imageRect, containerRect, timers,
                   exports, canvas>>
    /\ Commit

\* "touchcancel" / "pointercancel": the browser ends the gesture; neither
\* variant registers a listener for them
PointerCancel ==
    /\ lastEvent' = Event("cancel")
    /\ UNCHANGED <<replay, variant, uploadedImage, overlay, isDragging, isResizing, isRotating,
                   dragStartRef, imageRect, containerRect, timers, exports, canvas>>
    /\ Commit

\* onChange of the opacity slider
SetOpacity(ov, value) == [ov EXCEPT !.opacity = value]

OpacityChange(value) ==
    /\ uploadedImage # 0
    /\ overlay' = SetOpacity(overlay, value)
    /\ lastEvent' = Event("opacity")
    /\ replay' = Null
    /\ UNCHANGED <<variant, uploadedImage, isDragging, isResizing, isRotating, dragStartRef,
                   imageRect, containerRect, timers, exports, canvas>>
    /\ Commit

\* resetOverlay
resetOverlay ==
    /\ uploadedImage # 0
    /\ overlay' = DefaultOverlay(variant)
    /\ lastEvent' = Event("reset")
    /\ replay' = Null
    /\ UNCHANGED <<variant, uploadedImage, isDragging, isResizing, isRotating, dragStartRef,
                   imageRect, containerRect, timers, exports, canvas>>
    /\ Commit


(***************************************************************************)
(* Export.                                                                 *)
(***************************************************************************)
\* the decoded overlay asset /aztec-chain.png
OverlayImg == [width |-> 400, height |-> 200]

\* a drawImage call: what is drawn, the translation and rotation (degrees) of
\* the context, the distance (hx, hy) of the drawn rectangle's corner to the
\* left of and above the context origin (drawImage at -hx, -hy), the size
\* drawn and globalAlpha
Op(kind, img, tx, ty, rot, hx, hy, w, h, alpha) ==
    [kind |-> kind, img |-> img, tx |-> tx, ty |-> ty, rot |-> rot,
     hx |-> hx, hy |-> hy, w |-> w, h |-> h, alpha |-> alpha]

\* a download handler that also restores the default transform and ends the
\* gesture
downloadImageResetting ==
    /\ uploadedImage # 0
    /\ Len(exports) < MaxExports
    /\ exports' = Append(exports, [pc |-> "base", img |-> uploadedImage, ov |-> overlay,
                                   out |-> Null, alerted |-> FALSE])
    /\ overlay' = DefaultOverlay(variant)
    /\ isDragging' = FALSE
    /\ isResizing' = FALSE
    /\ isRotating' = FALSE
    /\ lastEvent' = Event("export")
    /\ replay' = Null
    /\ UNCHANGED <<variant, uploadedImage, dragStartRef, imageRect, containerRect, timers,
                   canvas>>
    /\ Commit

\* downloadImage up to its first await: the closure holds the uploadedImage
\* and the overlay of the render the click was handled in
downloadImage ==
    /\ uploadedImage # 0
    /\ Len(exports) < MaxExports
    /\ exports' = Append(exports, [pc |-> "base", img |-> uploadedImage, ov |-> overlay,
                                   out |-> Null, alerted |-> FALSE])
    /\ lastEvent' = Event("export")
    /\ UNCHANGED <<replay, variant, uploadedImage, overlay, isDragging, isResizing, isRotating,
                   dragStartRef, imageRect, containerRect, timers, canvas>>
    /\ Commit

\* canvas.width = w; canvas.height = h: the bitmap is cleared and the
\* context is reset to its default drawing state
setSize(cv, w, h) ==
    [width |-> w, height |-> h, ops |-> <<>>, ctx |-> DefaultCtx, calls |-> <<>>]

\* ctx.clearRect(0, 0, canvas.width, canvas.height)
ctxClearRect(cv) == [cv EXCEPT !.ops = <<>>, !.calls = Append(@, "clearRect")]

\* ctx.save(): the drawing state is pushed
ctxSave(cv) ==
    [cv EXCEPT !.ctx.stack = Append(@, [alpha |-> cv.ctx.alpha, tx |-> cv.ctx.tx,
                                        ty |-> cv.ctx.ty, rot |-> cv.ctx.rot]),
               !.calls = Append(@, "save")]

\* ctx.globalAlpha = a
ctxGlobalAlpha(cv, a) == [cv EXCEPT !.ctx.alpha = a, !.calls = Append(@, "globalAlpha")]

\* ctx.translate(x, y), called on an unrotated context
ctxTranslate(cv, x, y) ==
    [cv EXCEPT !.ctx.tx = FAdd(@, x), !.ctx.ty = FAdd(@, y),
               !.calls = Append(@, "translate")]

\* ctx.rotate(deg * Math.PI / 180), called on an unrotated context
ctxRotate(cv, deg) == [cv EXCEPT !.ctx.rot = deg, !.calls = Append(@, "rotate")]

\* ctx.drawImage(image, -hx, -hy, w, h): painted under the current
\* transform and globalAlpha
ctxDrawImage(cv, kind, img, hx, hy, w, h) ==
    [cv EXCEPT !.ops = Append(@, Op(kind, img, cv.ctx.tx, cv.ctx.ty, cv.ctx.rot,
                                    hx, hy, w, h, cv.ctx.alpha)),
               !.calls = Append(@, "drawImage")]

\* ctx.restore(): the drawing state saved last is popped; nothing happens
\* when none is saved
ctxRestore(cv) ==
    IF cv.ctx.stack = <<>> THEN [cv EXCEPT !.calls = Append(@, "restore")]
    ELSE LET top == cv.ctx.stack[Len(cv.ctx.stack)]
         IN  [cv EXCEPT !.ctx = [stack |-> SubSeq(cv.ctx.stack, 1, Len(cv.ctx.stack) - 1),
                                 alpha |-> top.alpha, tx |-> top.tx, ty |-> top.ty,
                                 rot |-> top.rot],
                        !.calls = Append(@, "restore")]

\* the canvas after the base image img was decoded: sized to the image
\* (which clears it), cleared, the base image drawn
DrawBase(cv, img) ==
    ctxDrawImage(ctxClearRect(setSize(cv, ImgW(img), ImgH(img))),
                 "base", img, Num(0), Num(0), Num(ImgW(img)), Num(ImgH(img)))

\* the base image of export e resolves; the function runs to its second await
BaseDecoded(e) ==
    /\ e \in 1 .. Len(exports)
    /\ exports[e].pc = "base"
    /\ canvas' = DrawBase(canvas, exports[e].img)
    /\ exports' = [exports EXCEPT ![e].pc = "overlay"]
    /\ lastEvent' = Event("decoded")
    /\ UNCHANGED <<replay, variant, uploadedImage, overlay, isDragging, isResizing, isRotating,
                   dragStartRef, imageRect, containerRect, timers>>
    /\ Commit

\* an overlay drawn with its top left corner, not its centre, on the
\* translated origin
DrawOverlayFromCorner(cv, ov) ==
    LET baseSize == FMul(Num(MinOf(cv.width, cv.height)), Rat(32, 100))
        drawW == FMul(baseSize, ov.scale)
        aspect == Rat(OverlayImg.width, OverlayImg.height)
        drawH == FDiv(drawW, aspect)
        centerX == FMul(FDiv(ov.x, Num(100)), Num(cv.width))
        centerY == FMul(FDiv(ov.y, Num(100)), Num(cv.height))
    IN  ctxRestore(ctxDrawImage(
            ctxRotate(ctxTranslate(ctxGlobalAlpha(ctxSave(cv), ov.opacity), centerX, centerY),
                      ov.rotation),
            "overlay", 0, Num(0), Num(0), drawW, drawH))

\* an overlay drawn without the closing ctx.restore()
DrawOverlayNoRestore(cv, ov) ==
    LET baseSize == FMul(Num(MinOf(cv.width, cv.height)), Rat(32, 100))
        drawW == FMul(baseSize, ov.scale)
        aspect == Rat(OverlayImg.width, OverlayImg.height)
        drawH == FDiv(drawW, aspect)
        centerX == FMul(FDiv(ov.x, Num(100)), Num(cv.width))
        centerY == FMul(FDiv(ov.y, Num(100)), Num(cv.height))
    IN  ctxDrawImage(
            ctxRotate(ctxTranslate(ctxGlobalAlpha(ctxSave(cv), ov.opacity), centerX, centerY),
                      ov.rotation),
            "overlay", 0, FDiv(drawW, Num(2)), FDiv(drawH, Num(2)), drawW, drawH)

\* the canvas after the overlay was drawn with transform ov: save,
\* globalAlpha, translate, rotate, drawImage, restore
DrawOverlay(cv, ov) ==
    LET baseSize == FMul(Num(MinOf(cv.width, cv.height)), Rat(32, 100))
        drawW == FMul(baseSize, ov.scale)
        aspect == Rat(OverlayImg.width, OverlayImg.height)
        drawH == FDiv(drawW, aspect)
        centerX == FMul(FDiv(ov.x, Num(100)), Num(cv.width))
        centerY == FMul(FDiv(ov.y, Num(100)), Num(cv.height))
    IN  ctxRestore(ctxDrawImage(
            ctxRotate(ctxTranslate(ctxGlobalAlpha(ctxSave(cv), ov.opacity), centerX, centerY),
                      ov.rotation),
            "overlay", 0, FDiv(drawW, Num(2)), FDiv(drawH, Num(2)), drawW, drawH))

\* mutant: the export reads the latest overlay (as through overlayRef)
ExportOverlayLive(ex) == overlay

\* the overlay that downloadImage reads after its awaits: the `overlay` of
\* its closure, the state of the render in which the click was handled
ExportOverlay(ex) == ex.ov

\* canvas.toDataURL: the raster that is downloaded
toDataURL(cv) == Some(cv)

\* the overlay image of export e resolves; the function runs to its end
OverlayDecoded(e) ==
    /\ e \in 1 .. Len(exports)
    /\ exports[e].pc = "overlay"
    /\ canvas' = DrawOverlay(canvas, ExportOverlay(exports[e]))
    /\ exports' = [exports EXCEPT ![e].pc = "done", ![e].out = toDataURL(canvas')]
    /\ lastEvent' = Event("decoded")
    /\ UNCHANGED <<replay, variant, uploadedImage, overlay, isDragging, isResizing, isRotating,
                   dragStartRef, imageRect, containerRect, timers>>
    /\ Commit

\* a failure handler that swallows the error: the export stays where it was
catchSwallowed(ex) == ex

\* a catch block that only logs the error
catchLogOnly(ex) == [ex EXCEPT !.pc = "failed"]

\* the catch block of downloadImage: console.error and alert; the function
\* ends without reaching toDataURL or a.click()
catch(ex) == [ex EXCEPT !.pc = "failed", !.alerted = TRUE]

\* an image of export e rejects: the catch block reports the failure
DecodeFailed(e) ==
    /\ e \in 1 .. Len(exports)
    /\ exports[e].pc \in {"base", "overlay"}
    /\ exports' = [exports EXCEPT ![e] = catch(exports[e])]
    /\ lastEvent' = Event("failed")
    /\ UNCHANGED <<replay, variant, uploadedImage, overlay, isDragging, isResizing, isRotating,
                   dragStartRef, imageRect, containerRect, timers, canvas>>
    /\ Commit

(***************************************************************************)
(* Preview.                                                                *)
(***************************************************************************)
\* side of the box of the overlay image in the preview, in CSS pixels: the
\* classes w-32 h-32 are 8rem, 128px at the default root font size
OverlayBoxPx == 128

\* width in CSS pixels of the overlay as the preview shows it: the image
\* fitted into its box (object-contain), the box scaled by scale(ov.scale)
PreviewOverlayWidth(ov) ==
    LET fitted == IF OverlayImg.width >= OverlayImg.height
                  THEN Num(OverlayBoxPx)
                  ELSE Rat(OverlayBoxPx * OverlayImg.width, OverlayImg.height)
    IN  FMul(fitted, ov.scale)

(***************************************************************************)
(* Specifications.                                                         *)
(***************************************************************************)
\* the editor without exports
Next ==
    \/ \E r \in Rects : FileLoaded(1, r)
    \/ TimerFired
    \/ \E kind \in LayoutKinds, r \in Rects : Layout(kind, r)
    \/ \E action \in Actions, p \in DownPoints : PointerDown(action, p)
    \/ \E p \in Points : PointerMove(p)
    \/ PointerUp
    \/ PointerCancel
    \/ \E value \in SliderValues : OpacityChange(value)
    \/ resetOverlay

Spec == Init /\ [][Next]_vars


\* inputs of the editor with exports: one laid-out rectangle, two pointer
\* positions, two slider positions
ExportRects == {Rect(0, 0, 200, 100)}

ExportPoints == {Pt(0, 0), Pt(120, 60)}

ExportSliderValues == {Rat(2, 20), Rat(20, 20)}

\* the editor with exports
NextExport ==
    \/ \E img \in Images, r \in ExportRects : FileLoaded(img, r)
    \/ \E action \in Actions, p \in DownPoints : PointerDown(action, p)
    \/ \E p \in ExportPoints : PointerMove(p)
    \/ PointerUp
    \/ \E value \in ExportSliderValues : OpacityChange(value)
    \/ resetOverlay
    \/ downloadImage
    \/ \E e \in 1 .. MaxExports : BaseDecoded(e)
    \/ \E e \in 1 .. MaxExports : OverlayDecoded(e)
    \/ \E e \in 1 .. MaxExports : DecodeFailed(e)

SpecExport == InitExport /\ [][NextExport]_vars


\* successive gestures on one laid out surface, each started from Idle
GesturePoints == {Pt(0, 0), Pt(120, 60)}

NextGestures ==
    \/ FileLoaded(1, Rect(0, 0, 200, 100))
    \/ Idle /\ \E action \in Actions, p \in DownPoints : PointerDown(action, p)
    \/ \E p \in GesturePoints : PointerMove(p)
    \/ PointerUp
    \/ resetOverlay

SpecGestures == InitGestures /\ [][NextGestures]_vars


\* events of a run kept back for the decodes of the exports: two for each
DecodeReserve == 2 * MaxExports

\* the user uploads, fades and downloads while events beyond the reserve
\* remain; every image of a started export resolves or rejects
NextDecode ==
    \/ steps > DecodeReserve /\ \E img \in Images : FileLoaded(img, Rect(0, 0, 200, 100))
    \/ steps > DecodeReserve /\ \E value \in ExportSliderValues : OpacityChange(value)
    \/ steps > DecodeReserve /\ downloadImage
    \/ \E e \in 1 .. MaxExports : BaseDecoded(e)
    \/ \E e \in 1 .. MaxExports : OverlayDecoded(e)
    \/ \E e \in 1 .. MaxExports : DecodeFailed(e)

\* the promise of the base image of export e settles: onload or onerror
BaseSettles(e) ==
    /\ e \in 1 .. Len(exports)
    /\ exports[e].pc = "base"
    /\ (BaseDecoded(e) \/ DecodeFailed(e))

\* the promise of the overlay image of export e settles: onload or onerror
OverlaySettles(e) ==
    /\ e \in 1 .. Len(exports)
    /\ exports[e].pc = "overlay"
    /\ (OverlayDecoded(e) \/ DecodeFailed(e))

\* the overlay image of export e is being decoded and an event is left to
\* settle it: the states in which OverlaySettles(e) is enabled
OverlayPending(e) ==
    /\ e \in 1 .. Len(exports)
    /\ exports[e].pc = "overlay"
    /\ steps > 0

\* the browser fires onload or onerror for every image that was requested:
\* weak fairness of both promises of every export; for the second,
\* WF_vars(OverlaySettles(e)) is written out with OverlayPending(e) for
\* ENABLED <<OverlaySettles(e)>>_vars
DecodeFairness ==
    \A e \in 1 .. MaxExports :
        /\ WF_vars(BaseSettles(e))
        /\ []<>~OverlayPending(e) \/ []<><<OverlaySettles(e)>>_vars

SpecDecode == InitDecode /\ [][NextDecode]_vars /\ DecodeFairness

\* the first render of an uploaded photo: pointer events can arrive before
\* the effect and the timer that measure the container have run
NextRender ==
    \/ \E r \in Rects : FileRendered(1, r)
    \/ RectEffect
    \/ TimerFired
    \/ \E action \in Actions, p \in DownPoints : PointerDown(action, p)
    \/ \E p \in GesturePoints : PointerMove(p)
    \/ PointerUp

SpecRender == InitRender /\ [][NextRender]_vars


(***************************************************************************)
(* Properties.                                                             *)
(***************************************************************************)
\* lo <= a <= hi for a finite real a
InRange(a, lo, hi) == a.k \in {"fin", "sqrt"} /\ ~FLess(a, lo) /\ ~FLess(hi, a)

\* the rectangle handleMove converts pointer positions with
MoveRect == IF variant = 1 THEN containerRect ELSE imageRect

HasArea(r) == r # Null /\ r[1].width > 0 /\ r[1].height > 0

NoArea(r) == r # Null /\ (r[1].width = 0 \/ r[1].height = 0)

\* C1: in every reachable state x and y are in [0,100], scale is in
\* [0.2,4.0], opacity is in [0.1,1.0] and no field of the transform is NaN
\* or infinite.
C1_TransformInRange ==
    /\ InRange(overlay.x, Num(0), Num(100))
    /\ InRange(overlay.y, Num(0), Num(100))
    /\ InRange(overlay.scale, Rat(2, 10), Num(4))
    /\ InRange(overlay.opacity, Rat(1, 10), Num(1))
    /\ IsFinite(overlay.rotation)

\* C2: in every reachable state at most one of isDragging, isResizing and
\* isRotating is set.
C2_ModesExclusive ==
    /\ ~(isDragging /\ isResizing)
    /\ ~(isDragging /\ isRotating)
    /\ ~(isResizing /\ isRotating)

\* C5: after a release event (pointer-up, touch-end) or a cancel event
\* (pointer-cancel, touch-cancel) the controller is Idle.
C5_ReleaseOrCancelIdle == lastEvent.type \in {"up", "cancel"} => Idle


Done(e) == e \in 1 .. Len(exports) /\ exports[e].pc = "done"

\* the raster an export of photo img with transform ov produces on a canvas
\* of its own
AloneRaster(img, ov) == DrawOverlay(DrawBase(BlankCanvas, img), ov)

\* C3: the raster serialized by every finished export holds its own base
\* image and exactly one overlay drawn with its own transform snapshot, as
\* if the export had run alone.
C3_ExportsIsolated ==
    \A e \in 1 .. MaxExports :
        Done(e) => exports[e].out = Some(AloneRaster(exports[e].img, exports[e].ov))

\* C4: a finished export has drawn the overlay last, with the position,
\* size, rotation and opacity of the transform as it was when the export
\* was requested, whatever the transform is now.
C4_ExportUsesRequestTransform ==
    \A e \in 1 .. MaxExports :
        Done(e) =>
            LET raster == exports[e].out[1]
                op == raster.ops[Len(raster.ops)]
                t == exports[e].ov
            IN  /\ op.kind = "overlay"
                /\ op.rot = t.rotation
                /\ op.alpha = t.opacity
                /\ op.tx = FMul(FDiv(t.x, Num(100)), Num(raster.width))
                /\ op.ty = FMul(FDiv(t.y, Num(100)), Num(raster.height))
                /\ op.w = FMul(FMul(Num(MinOf(raster.width, raster.height)), Rat(32, 100)),
                               t.scale)

\* C4 witness: the only export has just finished and the transform was
\* dragged, resized and faded since the export was requested
C4_Witness ==
    /\ Len(exports) = 1
    /\ Done(1)
    /\ lastEvent.type = "decoded"
    /\ exports[1].ov.x # overlay.x
    /\ exports[1].ov.opacity # overlay.opacity

C7_ListenersOnlyWhileActive ==
    /\ [](listening <=> ~Idle)
    /\ [][(Idle /\ lastEvent'.type = "move") => overlay' = overlay]_vars

\* C7 witness: a pointer-move was received in Idle, with no listener, after
\* a gesture had changed the transform
C7_Witness ==
    /\ lastEvent.type = "move"
    /\ Idle /\ ~listening
    /\ overlay.x # DefaultOverlay(variant).x

\* C8: a pointer-move handled while the display rectangle has zero width or
\* zero height leaves the transform unchanged.
C8_NoAreaMoveNoOp ==
    [][(lastEvent'.type = "move" /\ NoArea(MoveRect)) => overlay' = overlay]_vars

\* the percentage of local coordinate l on a side of length size > 0:
\* exact inside the surface, saturated at the nearest edge outside
PercentOf(l, size) ==
    IF l < 0 THEN Num(0) ELSE IF l > size THEN Num(100) ELSE Rat(l * 100, size)

\* C9: a Dragging move on a surface of positive size sets x and y to the
\* pointer's surface-relative position in percent, clamped to [0,100].
C9_DragMapsToPercent ==
    [][(lastEvent'.type = "move" /\ isDragging /\ HasArea(MoveRect)) =>
            LET r == MoveRect[1]
            IN  /\ overlay'.x = PercentOf(lastEvent'.p.x - r.left, r.width)
                /\ overlay'.y = PercentOf(lastEvent'.p.y - r.top, r.height)]_vars

\* C9 witness: a Dragging move to the right of the surface has saturated x
\* at 100 and mapped y to its exact percentage
C9_Witness ==
    /\ lastEvent.type = "move"
    /\ lastEvent.p = Pt(250, 50)
    /\ isDragging /\ HasArea(MoveRect)
    /\ overlay.x = Num(100)
    /\ overlay.y = Num(50)

\* the scale C10 states for a pointer at p: clamp(distance / baseDistance,
\* 0.2, 4.0), distance from p to the overlay centre, baseDistance 0.2 times
\* the shorter side of the surface
ClaimedScale(ov, r, p) ==
    LET dx == FSub(Num(p.x - r.left), FMul(FDiv(ov.x, Num(100)), Num(r.width)))
        dy == FSub(Num(p.y - r.top), FMul(FDiv(ov.y, Num(100)), Num(r.height)))
        base == FMul(Rat(2, 10), Num(MinOf(r.width, r.height)))
        ratio2 == FDiv(FAdd(FMul(dx, dx), FMul(dy, dy)), FMul(base, base))
    IN  IF ~FLess(Rat(4, 100), ratio2) THEN Rat(2, 10)
        ELSE IF ~FLess(ratio2, Num(16)) THEN Num(4)
        ELSE FSqrt(ratio2)

\* C10: a Resizing move on a surface of positive size sets scale to
\* clamp(distance / baseDistance, 0.2, 4.0).
C10_ResizeScale ==
    [][(/\ lastEvent'.type = "move"
        /\ isResizing /\ ~isDragging
        /\ HasArea(MoveRect)
        /\ InRange(overlay.x, Num(0), Num(100))
        /\ InRange(overlay.y, Num(0), Num(100))) =>
            overlay'.scale = ClaimedScale(overlay, MoveRect[1], lastEvent'.p)]_vars

\* the pointer at p is exactly on the overlay centre of surface r
AtCentre(ov, r, p) ==
    /\ Num(p.x - r.left) = FMul(FDiv(ov.x, Num(100)), Num(r.width))
    /\ Num(p.y - r.top) = FMul(FDiv(ov.y, Num(100)), Num(r.height))

\* C11: a Resizing move with the pointer exactly on the overlay centre
\* (distance 0) sets scale to the minimum scale 0.2 and stores no NaN or
\* infinite scale, whatever display rectangle the move observes.
C11_ResizeAtCentre ==
    [][(/\ lastEvent'.type = "move"
        /\ isResizing /\ ~isDragging
        /\ MoveRect # Null
        /\ IsFinite(overlay.x) /\ IsFinite(overlay.y)
        /\ AtCentre(overlay, MoveRect[1], lastEvent'.p)) =>
            /\ IsFinite(overlay'.scale)
            /\ overlay'.scale = Rat(2, 10)]_vars

\* the bearing, in degrees, from the overlay centre on surface r to the
\* pointer at p; it reads the pointer, the rectangle and x, y only
Bearing(ov, r, p) ==
    Atan2Deg(FSub(Num(p.y - r.top), FMul(FDiv(ov.y, Num(100)), Num(r.height))),
             FSub(Num(p.x - r.left), FMul(FDiv(ov.x, Num(100)), Num(r.width))))

\* the pointer at p is straight below the overlay centre of surface r: the
\* bearing is 90 degrees
Bearing90(ov, r, p) ==
    /\ Num(p.x - r.left) = FMul(FDiv(ov.x, Num(100)), Num(r.width))
    /\ FLess(FMul(FDiv(ov.y, Num(100)), Num(r.height)), Num(p.y - r.top))

\* C12: a Rotating move sets rotation to the bearing from the overlay
\* centre to the pointer, whatever the rotation was before the move; a
\* pointer at bearing 90 degrees gives rotation 90.
C12_RotateAbsoluteBearing ==
    [][(/\ lastEvent'.type = "move"
        /\ isRotating /\ ~isDragging /\ ~isResizing
        /\ MoveRect # Null) =>
            /\ overlay'.rotation = Bearing(overlay, MoveRect[1], lastEvent'.p)
            /\ (/\ IsFinite(overlay.x) /\ IsFinite(overlay.y)
                /\ Bearing90(overlay, MoveRect[1], lastEvent'.p)) =>
                    overlay'.rotation = Num(90)]_vars

\* C12 witness: late in a run, a Rotating move with the pointer straight
\* below the centre has stored 90 degrees
C12_Witness ==
    /\ lastEvent.type = "move"
    /\ lastEvent.p = Pt(100, 150)
    /\ isRotating /\ ~isDragging /\ ~isResizing
    /\ HasArea(MoveRect)
    /\ overlay.x = Num(50)
    /\ overlay.rotation = Num(90)
    /\ steps <= MaxSteps - 4

\* C13: initially, after a new base image has loaded and after a reset the
\* transform is x = 50, y = 50, scale = 1, rotation = 0 with opacity in
\* [0.9, 0.95].
C13_DefaultsRestored ==
    lastEvent.type \in {"init", "upload", "reset"} =>
        /\ overlay.x = Num(50)
        /\ overlay.y = Num(50)
        /\ overlay.scale = Num(1)
        /\ overlay.rotation = Num(0)
        /\ InRange(overlay.opacity, Rat(90, 100), Rat(95, 100))

\* C14: an export in which the decoding of the base image or of the overlay
\* image failed has alerted the user and downloaded nothing, and every
\* raster that was downloaded has the overlay drawn on it last.
C14_DecodeFailureReported ==
    \A e \in 1 .. MaxExports :
        /\ (e \in 1 .. Len(exports) /\ exports[e].pc = "failed") =>
                exports[e].alerted /\ exports[e].out = Null
        /\ (e \in 1 .. Len(exports) /\ exports[e].out # Null) =>
                LET raster == exports[e].out[1]
                IN  /\ ~exports[e].alerted
                    /\ Len(raster.ops) >= 2
                    /\ raster.ops[Len(raster.ops)].kind = "overlay"

\* C14 witness: the only export drew its base image and then failed to
\* decode the overlay
C14_Witness ==
    /\ Len(exports) = 1
    /\ exports[1].pc = "failed"
    /\ lastEvent.type = "failed"
    /\ Len(canvas.ops) = 1
    /\ canvas.ops[1].kind = "base"

\* C15: the raster a finished export serialized has the native width and
\* height of the base image that export decoded, whatever other exports or
\* image loads were in flight.
C15_RasterHasBaseSize ==
    \A e \in 1 .. MaxExports :
        Done(e) =>
            /\ exports[e].out[1].width = ImgW(exports[e].img)
            /\ exports[e].out[1].height = ImgH(exports[e].img)

\* C16: no step of an export (the click, a decoded image, a failure)
\* changes the transform or a mode flag.
C16_ExportReadOnly ==
    [][lastEvent'.type \in {"export", "decoded", "failed"} =>
            /\ overlay' = overlay
            /\ isDragging' = isDragging
            /\ isResizing' = isResizing
            /\ isRotating' = isRotating]_vars

\* C16 witness: the only export has finished in the middle of a gesture
\* that had resized the overlay
C16_Witness ==
    /\ Len(exports) = 1
    /\ Done(1)
    /\ lastEvent.type = "decoded"
    /\ isResizing
    /\ overlay.scale # Num(1)

\* C17: in the raster of W x H pixels a finished export serialized, the
\* overlay is drawn around the point (x / 100 * W, y / 100 * H) of the
\* exported transform, half of its width and height on either side; in a
\* 200 x 100 raster with x = 50, y = 50 that point is (100, 50).
C17_OverlayCentredInRaster ==
    \A e \in 1 .. MaxExports :
        Done(e) =>
            LET raster == exports[e].out[1]
                op == raster.ops[Len(raster.ops)]
                t == exports[e].ov
            IN  /\ FMul(op.tx, Num(100)) = FMul(t.x, Num(raster.width))
                /\ FMul(op.ty, Num(100)) = FMul(t.y, Num(raster.height))
                /\ FMul(Num(2), op.hx) = op.w
                /\ FMul(Num(2), op.hy) = op.h
                /\ (/\ raster.width = 200 /\ raster.height = 100
                    /\ t.x = Num(50) /\ t.y = Num(50)) =>
                        op.tx = Num(100) /\ op.ty = Num(50)

\* C17 witness: a finished export of the transform x = 50, y = 50 into a
\* raster of 200 x 100 pixels, the overlay drawn around (100, 50)
C17_Witness ==
    \E e \in 1 .. MaxExports :
        /\ Done(e)
        /\ exports[e].out[1].width = 200
        /\ exports[e].out[1].height = 100
        /\ exports[e].ov.x = Num(50)
        /\ exports[e].ov.y = Num(50)
        /\ exports[e].ov.scale # Num(1)
        /\ exports[e].out[1].ops[2].tx = Num(100)
        /\ exports[e].out[1].ops[2].ty = Num(50)

\* C18: the overlay is as wide, as a fraction of the shorter side of the
\* base image, in the preview as in the raster exported from that preview.
C18_PreviewMatchesExport ==
    \A e \in 1 .. MaxExports :
        (/\ Done(e)
         /\ exports[e].ov = overlay
         /\ IsFinite(overlay.scale)
         /\ HasArea(containerRect)) =>
            LET raster == exports[e].out[1]
                op == raster.ops[Len(raster.ops)]
                r == containerRect[1]
            IN  FDiv(PreviewOverlayWidth(overlay), Num(MinOf(r.width, r.height)))
                    = FDiv(op.w, Num(MinOf(raster.width, raster.height)))

\* C20: a release (mouseup, touchend) or a cancel leaves the five fields of
\* the transform as the last move, or the start of the gesture, left them.
C20_ReleaseKeepsTransform ==
    [][lastEvent'.type \in {"up", "cancel"} => overlay' = overlay]_vars

\* C20 witness: a gesture that had moved the overlay was released
C20_Witness ==
    /\ lastEvent.type = "up"
    /\ Idle /\ ~listening
    /\ IsFinite(overlay.x)
    /\ overlay.x # Num(50)

\* C19: the moves of a gesture are applied in the order received, each to
\* the transform the previous one left: during the gesture and after its
\* release the transform is the transform at gesture start with the mode's
\* update rule applied to every received move in turn.
C19_MovesAppliedInOrder ==
    replay # Null => overlay = replay[1].ov

\* C19 witness: a gesture of at least two moves that changed the transform
\* was released
C19_Witness ==
    /\ lastEvent.type = "up"
    /\ Idle
    /\ replay # Null
    /\ replay[1].n >= 2
    /\ overlay = replay[1].ov
    /\ overlay.opacity # Rat(95, 100)
    /\ overlay.scale # Num(1)

\* surface sizes the round trip is evaluated on
RoundTripSizes == {Rect(0, 0, 3, 7)}

\* the transform after its position was converted to local pixels of
\* surface r, as the resize and rotate branches convert it, and back to
\* percent, as the drag branch converts a pointer position
RoundTrip(ov, r) ==
    DragMove(ov, r, FMul(FDiv(ov.x, Num(100)), Num(r.width)),
                    FMul(FDiv(ov.y, Num(100)), Num(r.height)))

C22_PaintAfterBothDecoded ==
    [][canvas' # canvas =>
            \E e \in 1 .. Len(exports) :
                exports[e].pc = "overlay" /\ exports'[e].pc = "done"]_vars

C24_RectangleCurrent ==
    [][(\/ lastEvent'.type = "down"
        \/ lastEvent'.type = "move" /\ listening) =>
            MoveRect # Null /\ MoveRect = containerRect]_vars

\* the context calls of one export that has the canvas to itself
PaintOrder ==
    <<"clearRect", "drawImage", "save", "globalAlpha", "translate", "rotate", "drawImage",
      "restore">>

\* the last n elements of sequence q
Last(q, n) == SubSeq(q, Len(q) - n + 1, Len(q))

\* C25: an export paints in the order base image, save, globalAlpha,
\* translate, rotate, overlay image, restore, and the step that draws the
\* overlay leaves the context's saved states, alpha and transform as they
\* were before it.
C25_PaintOrderAndRestore ==
    /\ [](\A e \in 1 .. MaxExports :
            Done(e) =>
                LET raster == exports[e].out[1]
                IN  /\ Len(raster.calls) >= Len(PaintOrder)
                    /\ SubSeq(raster.calls, 1, 2) = SubSeq(PaintOrder, 1, 2)
                    /\ Last(raster.calls, 6) = Last(PaintOrder, 6)
                    /\ raster.ops[1].kind = "base"
                    /\ raster.ops[Len(raster.ops)].kind = "overlay"
                    /\ raster.ops[Len(raster.ops)].alpha = exports[e].ov.opacity
                    /\ raster.ops[Len(raster.ops)].rot = exports[e].ov.rotation
                    /\ (Len(exports) = 1 => raster.calls = PaintOrder))
    /\ [][(\E e \in 1 .. Len(exports) :
                exports[e].pc = "overlay" /\ exports'[e].pc = "done") =>
            canvas'.ctx = canvas.ctx]_vars

\* C25 witness: an export of a rotated, faded overlay has finished and the
\* context is back in its default drawing state
C25_Witness ==
    /\ Len(exports) = 1
    /\ Done(1)
    /\ lastEvent.type = "decoded"
    /\ exports[1].ov.opacity # Num(1)
    /\ exports[1].ov.scale # Num(1)
    /\ canvas.calls = PaintOrder
    /\ canvas.ctx = DefaultCtx

\* C26: a Dragging move leaves scale, rotation and opacity unchanged, a
\* Resizing move x, y, rotation and opacity, a Rotating move x, y, scale
\* and opacity, and a pointer-down every field of the transform.
C26_ModeWritesOwnFields ==
    [][/\ (lastEvent'.type = "move" /\ isDragging) =>
            /\ overlay'.scale = overlay.scale
            /\ overlay'.rotation = overlay.rotation
            /\ overlay'.opacity = overlay.opacity
       /\ (lastEvent'.type = "move" /\ isResizing /\ ~isDragging) =>
            /\ overlay'.x = overlay.x
            /\ overlay'.y = overlay.y
            /\ overlay'.rotation = overlay.rotation
            /\ overlay'.opacity = overlay.opacity
       /\ (lastEvent'.type = "move" /\ isRotating /\ ~isDragging /\ ~isResizing) =>
            /\ overlay'.x = overlay.x
            /\ overlay'.y = overlay.y
            /\ overlay'.scale = overlay.scale
            /\ overlay'.opacity = overlay.opacity
       /\ lastEvent'.type = "down" => overlay' = overlay]_vars

\* C26 witness: a Resizing move has changed the scale of an overlay that
\* was rotated before
C26_Witness ==
    /\ lastEvent.type = "move"
    /\ isResizing /\ ~isDragging /\ ~isRotating
    /\ HasArea(MoveRect)
    /\ overlay.scale # Num(1)
    /\ overlay.rotation # Num(0)

\* C27: a pointer-down handled while there is no container, or no measured
\* rectangle, changes nothing: the controller stays Idle, no listener is
\* registered and the transform is unchanged.
C27_DownWithoutRectNoOp ==
    [][(lastEvent'.type = "down" /\ MoveRect = Null) =>
            /\ Idle /\ ~isDragging' /\ ~isResizing' /\ ~isRotating'
            /\ ~listening'
            /\ dragStartRef' = dragStartRef
            /\ overlay' = overlay]_vars

\* C27 witness: the second component has handled a pointer-down on the
\* overlay of a photo whose container was not measured yet
C27_Witness ==
    /\ lastEvent.type = "down"
    /\ variant = 2
    /\ uploadedImage # 0
    /\ imageRect = Null
    /\ Idle /\ ~listening

Started(e) == e \in 1 .. Len(exports)

Ended(e) == Started(e) /\ exports[e].pc \in {"done", "failed"}

\* C28: when every decode resolves or rejects, every started export ends,
\* with a download or with a reported failure and not with both, and
\* nothing more happens in it afterwards.
C28_ExportEndsWithOneOutcome ==
    /\ \A e \in 1 .. MaxExports : Started(e) ~> Ended(e)
    /\ [](\A e \in 1 .. MaxExports :
            /\ Ended(e) => ((exports[e].out # Null) # exports[e].alerted)
            /\ (Started(e) /\ ~Ended(e)) => (exports[e].out = Null /\ ~exports[e].alerted))
    /\ [][\A e \in 1 .. MaxExports : Ended(e) => exports'[e] = exports[e]]_vars

\* C28 witness: of two exports one has ended with a download and the other
\* with a reported failure
C28_Witness ==
    /\ Len(exports) = 2
    /\ exports[1].pc = "failed" /\ exports[1].alerted /\ exports[1].out = Null
    /\ exports[2].pc = "done" /\ ~exports[2].alerted /\ exports[2].out # Null

====
